---- MODULE Spec2Model ----
(***************************************************************************)
(* MetaRate (streamlit_app.py): the review-assignment and progress         *)
(* tracking engine.  The state is the files the script reads and writes    *)
(* (the per-user action logs, the pool mapping), the cached roster, the    *)
(* report pools, and every browser session's st.session_state.  One action *)
(* is one script run triggered by a widget of the page being shown.        *)
(***************************************************************************)
EXTENDS Naturals, Integers, Sequences, FiniteSets, TLC

(***************************************************************************)
(* Bounds of the model.                                                    *)
(***************************************************************************)
\* Rows the action logs hold together before the model stops appending.
MaxLog == 2

(***************************************************************************)
(* Values.                                                                 *)
(***************************************************************************)
\* Python's None where a report (a dict) is expected and where a path is, and
\* pandas' NaN (what read_excel gives for a missing cell).
None == [none |-> TRUE]
NonePath == "<None>"
NaN == "NaN"

\* Browser sessions (each has its own st.session_state).
Sessions == {"s1"}

\* What can be typed in the login form.
TypedUsernames == {"alice", "bob", "eve", ""}
TypedPasswords == {"pa", "pb"}
\* Usernames a log file can be named after (every non-empty typed username).
LogNames == TypedUsernames \ {""}

\* The four categories of the rating form's radio, and the ones chosen here.
Ratings == <<"No error", "Laterality error", "Negation error", "Other error">>
ChosenRatings == {Ratings[1], Ratings[4]}
\* Texts typed in the comments area: none, and a text pandas reads as missing.
TypedComments == {"", "N/A"}

\* The columns log_action writes.
columns == <<"Timestamp", "Username", "Action", "Report ID", "Rating", "Comments">>
\* Columns of a log written by something else: an older layout that still has
\* the Action and Report ID columns, and a layout that has neither.
LegacyColumns == <<"Timestamp", "Username", "Action", "Report ID", "Rating">>
ForeignColumns == <<"Sheet1">>

Range(f) == {f[i] : i \in DOMAIN f}

(***************************************************************************)
(* st.session_state: a dictionary; a key is present or not.                *)
(***************************************************************************)
Put(d, k, v) == [x \in (DOMAIN d) \cup {k} |-> IF x = k THEN v ELSE d[x]]
Del(d, k) == [x \in (DOMAIN d) \ {k} |-> d[x]]
Has(d, k) == k \in DOMAIN d
\* st.session_state.get(k): None when the key is absent.
Get(d, k) == IF Has(d, k) THEN d[k] ELSE None

(***************************************************************************)
(* The roster, users.xlsx.                                                 *)
(***************************************************************************)
\* users.xlsx as deployed, without the is_admin column, and as it is once
\* the column is there (the administrator need not be the first row).
RosterNoAdminColumn ==
    [columns |-> <<"username", "password">>,
     rows |-> << [username |-> "alice", password |-> "pa"],
                 [username |-> "bob", password |-> "pb"] >>]
RosterWithAdminColumn ==
    [columns |-> <<"username", "password", "is_admin">>,
     rows |-> << [username |-> "alice", password |-> "pa", is_admin |-> FALSE],
                 [username |-> "bob", password |-> "pb", is_admin |-> TRUE] >>]

\* initialize_admin_user as a recurring rule: the first row is made the admin
\* on every run, whether or not the column is there.
initialize_admin_user_every_run(users_df) ==
    [columns |-> IF "is_admin" \in Range(users_df.columns) THEN users_df.columns
                 ELSE Append(users_df.columns, "is_admin"),
     rows |-> [i \in DOMAIN users_df.rows |->
                 Put(users_df.rows[i], "is_admin", i = 1)]]

\* initialize_admin_user: adds the is_admin column, true for the first row.
initialize_admin_user(users_df) ==
    IF "is_admin" \notin Range(users_df.columns)
    THEN [columns |-> Append(users_df.columns, "is_admin"),
          rows |-> [i \in DOMAIN users_df.rows |->
                      Put(users_df.rows[i], "is_admin", i = 1)]]
    ELSE users_df

(***************************************************************************)
(* The report pools and the pool mapping.                                  *)
(***************************************************************************)
DefaultPool == "rating_reports.jsonl"

\* The JSONL files on disk (load_reports gives [] for a file that is not
\* there, such as "gone.jsonl").
ReportFiles ==
    [f \in {DefaultPool, "poolA.jsonl", "poolB.jsonl"} |->
        CASE f = DefaultPool -> << [rating_id |-> "r1"], [rating_id |-> "r2"] >>
          [] f = "poolA.jsonl" -> << [rating_id |-> "r2"], [rating_id |-> "r1"] >>
          [] f = "poolB.jsonl" -> << [rating_id |-> "r2"] >>]

load_reports(file_path) ==
    IF file_path \notin DOMAIN ReportFiles THEN << >> ELSE ReportFiles[file_path]

load_all_reports(report_file) ==
    IF report_file = NonePath THEN << >> ELSE load_reports(report_file)

\* user_report_mapping.json: absent, or an ordered object pool -> users.
NoMappingFile == << [absent |-> TRUE] >>
MappingFiles ==
    { NoMappingFile,
      << [report_file |-> "poolA.jsonl", users |-> {"alice", "bob"}],
         [report_file |-> "poolB.jsonl", users |-> {"alice"}] >>,
      << [report_file |-> "poolB.jsonl", users |-> {"alice"}],
         [report_file |-> "gone.jsonl", users |-> {"bob"}] >> }

\* Index of the first pool whose users contain the username, 0 when none.
RECURSIVE FirstMatch(_, _, _)
FirstMatch(m, username, i) ==
    IF i > Len(m) THEN 0
    ELSE IF username \in m[i].users THEN i
    ELSE FirstMatch(m, username, i + 1)

\* get_report_file_for_user without the early return: the last pool that
\* lists the user wins.
get_report_file_for_user_last_listed(username, mapping_file) ==
    IF mapping_file = NoMappingFile THEN DefaultPool
    ELSE LET listed == {i \in DOMAIN mapping_file : username \in mapping_file[i].users}
         IN IF listed = {} THEN DefaultPool
            ELSE mapping_file[CHOOSE i \in listed : \A j \in listed : j <= i].report_file

get_report_file_for_user(username, mapping_file) ==
    IF mapping_file = NoMappingFile THEN DefaultPool
    ELSE LET i == FirstMatch(mapping_file, username, 1)
         IN IF i = 0 THEN DefaultPool ELSE mapping_file[i].report_file

RECURSIVE FindReport(_, _, _)
FindReport(reports, rating_id, i) ==
    IF i > Len(reports) THEN None
    ELSE IF reports[i].rating_id = rating_id THEN reports[i]
    ELSE FindReport(reports, rating_id, i + 1)

get_report_by_id(rating_id, report_file) ==
    FindReport(load_all_reports(report_file), rating_id, 1)

(***************************************************************************)
(* The action logs, logs/<username>_action_log.xlsx.                       *)
(***************************************************************************)
NoFile == [absent |-> TRUE]

\* datetime.now().strftime("%Y-%m-%d %H:%M:%S").  The wall clock is not
\* modelled: no code path reads the Timestamp column back, and every row
\* carries the same reading.
Now == "2026-01-01 00:00:00"

\* Texts pandas.read_excel turns into NaN (its default na_values), among the
\* texts of this model; the empty cell is "".
NaTexts == {"", "N/A", "NaN"}
\* One cell through DataFrame.to_excel: "" and NaN are written as empty cells.
to_excel_cell(v) == IF v = NaN THEN "" ELSE v
\* One cell through pandas.read_excel.
read_excel_cell(c) == IF c \in NaTexts THEN NaN ELSE c

to_excel(df) ==
    [columns |-> df.columns,
     rows |-> [i \in DOMAIN df.rows |->
                 [c \in DOMAIN df.rows[i] |-> to_excel_cell(df.rows[i][c])]]]
read_excel(file) ==
    [columns |-> file.columns,
     rows |-> [i \in DOMAIN file.rows |->
                 [c \in DOMAIN file.rows[i] |-> read_excel_cell(file.rows[i][c])]]]

\* One row of a data frame with log_action's columns.
Row(timestamp, username, action, report_id, rating, comments) ==
    [c \in Range(columns) |->
        CASE c = "Timestamp" -> timestamp
          [] c = "Username" -> username
          [] c = "Action" -> action
          [] c = "Report ID" -> report_id
          [] c = "Rating" -> rating
          [] c = "Comments" -> comments]

\* Logs found at start that this program did not write: an older layout
\* holding one submitted rating, and a sheet with other columns.
LegacyLog(username) ==
    [columns |-> LegacyColumns,
     rows |-> << [c \in Range(LegacyColumns) |->
                    Row(Now, username, "Submit Rating", "r1", "No error", "")[c]] >>]
ForeignLog == [columns |-> ForeignColumns, rows |-> << >>]

\* log_action that skips a Submit Rating entry for a report the log already
\* holds a Submit Rating entry for.
log_action_skip_rated(files, username, action, report_id, rating, comments, ok) ==
    IF ~ok THEN files
    ELSE LET new_log_entry ==
                 << Row(Now, username, action, report_id, rating, comments) >>
             file == files[username]
         IN IF file = NoFile \/ file.columns # columns
            THEN [files EXCEPT ![username] =
                    to_excel([columns |-> columns, rows |-> new_log_entry])]
            ELSE IF /\ action = "Submit Rating"
                    /\ \E i \in DOMAIN file.rows :
                          /\ file.rows[i]["Action"] = "Submit Rating"
                          /\ file.rows[i]["Report ID"] = report_id
                 THEN files
                 ELSE [files EXCEPT ![username] =
                         to_excel([columns |-> columns,
                                   rows |-> read_excel(file).rows \o new_log_entry])]

\* log_action with the existing rows forgotten: the new entry alone is written.
log_action_overwrite(files, username, action, report_id, rating, comments, ok) ==
    IF ok
    THEN [files EXCEPT ![username] =
            to_excel([columns |-> columns,
                      rows |-> << Row(Now, username, action, report_id, rating,
                                      comments) >>])]
    ELSE files

\* log_action(username, action, report_id, rating, comments): the log files
\* afterwards.  ok is whether the read and the write inside the try went
\* through; when an exception is raised the except branch only shows it.
log_action(files, username, action, report_id, rating, comments, ok) ==
    LET log_file == username
        timestamp == Now
        new_log_entry ==
            [columns |-> columns,
             rows |-> << Row(timestamp, username, action, report_id, rating, comments) >>]
        log_df ==
            IF files[log_file] # NoFile
            THEN LET old == read_excel(files[log_file])
                 IN IF old.columns # columns
                    THEN new_log_entry
                    ELSE [columns |-> columns, rows |-> old.rows \o new_log_entry.rows]
            ELSE new_log_entry
    IN IF ok THEN [files EXCEPT ![log_file] = to_excel(log_df)] ELSE files

\* Lines 34-44 of log_action alone: the data frame it has built from the
\* file as it reads it, before the write of line 46.
log_df_built(files, username, action, report_id, rating, comments) ==
    LET new_log_entry ==
            [columns |-> columns,
             rows |-> << Row(Now, username, action, report_id, rating, comments) >>]
    IN IF files[username] # NoFile
       THEN LET old == read_excel(files[username])
            IN IF old.columns # columns
               THEN new_log_entry
               ELSE [columns |-> columns, rows |-> old.rows \o new_log_entry.rows]
       ELSE new_log_entry

\* get_rated_reports without the filter on the Action column.
get_rated_reports_any_action(files, username) ==
    IF files[username] = NoFile THEN {}
    ELSE LET log_df == read_excel(files[username])
         IN IF {"Action", "Report ID"} \subseteq Range(log_df.columns)
            THEN {log_df.rows[i]["Report ID"] : i \in DOMAIN log_df.rows}
            ELSE {}

\* get_rated_reports(username): a KeyError (a column missing) gives set().
get_rated_reports(files, username) ==
    LET log_file == username
    IN IF files[log_file] = NoFile THEN {}
       ELSE LET log_df == read_excel(files[log_file])
            IN IF {"Action", "Report ID"} \subseteq Range(log_df.columns)
               THEN {log_df.rows[i]["Report ID"] :
                        i \in {j \in DOMAIN log_df.rows :
                                 log_df.rows[j]["Action"] = "Submit Rating"}}
               ELSE {}

\* [r for r in all_reports if r.get('rating_id') not in rated_reports]
\* reports_to_rate without the filter on the rated reports.
reports_to_rate_unfiltered(all_reports, rated_reports) == all_reports

reports_to_rate(all_reports, rated_reports) ==
    SelectSeq(all_reports, LAMBDA r : r.rating_id \notin rated_reports)

(***************************************************************************)
(* State.                                                                  *)
(***************************************************************************)
VARIABLES
    users_df,    \* load_users(): the roster, cached once read
    mapping,     \* user_report_mapping.json
    logs,        \* the log file of every username
    session,     \* st.session_state of every browser session
    in_flight    \* the log_action call every session's script thread is in

vars == <<users_df, mapping, logs, session, in_flight>>

\* The session's script thread is not inside log_action.
NoCall == [none |-> TRUE]

\* st.session_state after the script's first run (lines 251-253).
NewSession == Put(Put(<< >>, "logged_in", FALSE), "page", "login")

\* The logs directory at start: empty, or holding for one user a log this
\* program did not write.
InitialLogs ==
    {[u \in LogNames |-> IF u = "alice" THEN f ELSE NoFile] :
        f \in {NoFile, ForeignLog, LegacyLog("alice")}}

\* The script's first run has happened: initialize_admin_user (line 249) has
\* completed the roster, which load_users then caches.
Init ==
    /\ users_df = initialize_admin_user(RosterNoAdminColumn)
    /\ mapping \in MappingFiles
    /\ logs \in InitialLogs
    /\ session = [s \in Sessions |-> NewSession]
    /\ in_flight = [s \in Sessions |-> NoCall]

\* Rows in all the log files together.
RECURSIVE SumRows(_, _)
SumRows(files, names) ==
    IF names = {} THEN 0
    ELSE LET u == CHOOSE x \in names : TRUE
         IN (IF files[u] = NoFile THEN 0 ELSE Len(files[u].rows))
            + SumRows(files, names \ {u})
TotalRows == SumRows(logs, LogNames)

\* The model stops appending once the logs hold MaxLog rows together (a
\* failed write, or a write that starts a log afresh, adds none).
LogRoom(username, ok) ==
    IF ~ok \/ logs[username] = NoFile THEN TotalRows < MaxLog \/ ~ok
    ELSE IF logs[username].columns # columns THEN TRUE
    ELSE TotalRows < MaxLog

(***************************************************************************)
(* draw_login_page: the Login button.                                      *)
(***************************************************************************)
\* draw_login_page without the entry for a failed attempt.
Login_without_fail_entry(s, username, password, ok) ==
    /\ ~session[s]["logged_in"]
    /\ IF username = "" THEN TRUE ELSE LogRoom(username, ok)
    /\ LET user_record == SelectSeq(users_df.rows, LAMBDA r : r["username"] = username)
       IN IF user_record # << >> /\ user_record[1]["password"] = password
          THEN /\ session' = [session EXCEPT ![s] =
                    Put(Put(Put(Put(@, "logged_in", TRUE),
                                "username", username),
                            "is_admin", IF Has(user_record[1], "is_admin")
                                        THEN user_record[1]["is_admin"] ELSE FALSE),
                        "page", "progress")]
               /\ logs' = log_action(logs, username, "Login Success", "", "", "", ok)
          ELSE /\ session' = session
               /\ logs' = logs
    /\ UNCHANGED <<users_df, mapping, in_flight>>

Login(s, username, password, ok) ==
    /\ ~session[s]["logged_in"]
    /\ IF username = "" THEN TRUE ELSE LogRoom(username, ok)
    /\ LET user_record == SelectSeq(users_df.rows, LAMBDA r : r["username"] = username)
       IN IF user_record # << >> /\ user_record[1]["password"] = password
          THEN /\ session' = [session EXCEPT ![s] =
                    Put(Put(Put(Put(@, "logged_in", TRUE),
                                "username", username),
                            "is_admin", IF Has(user_record[1], "is_admin")
                                        THEN user_record[1]["is_admin"] ELSE FALSE),
                        "page", "progress")]
               /\ logs' = log_action(logs, username, "Login Success", "", "", "", ok)
          ELSE /\ session' = session
               /\ logs' = IF username # ""
                          THEN log_action(logs, username, "Login Fail", "", "", "", ok)
                          ELSE logs
    /\ UNCHANGED <<users_df, mapping, in_flight>>

(***************************************************************************)
(* draw_progress_page.                                                     *)
(***************************************************************************)
\* st.progress raises for a value above 1.0, and the script run ends there:
\* the Start/Continue button below it is not drawn.
progress_drawn(s) ==
    LET username == session[s]["username"]
        all_reports == load_all_reports(get_report_file_for_user(username, mapping))
        rated_reports == get_rated_reports(logs, username)
        total_reports == Len(all_reports)
        rated_count == Cardinality(rated_reports)
    IN total_reports > 0 => rated_count <= total_reports

Logout(s, ok) ==
    /\ session[s]["logged_in"]
    /\ session[s]["page"] = "progress"
    /\ LogRoom(session[s]["username"], ok)
    /\ logs' = log_action(logs, session[s]["username"], "Logout", "", "", "", ok)
    /\ session' = [session EXCEPT ![s] =
            Del(Del(Put(Put(@, "logged_in", FALSE), "page", "login"), "username"),
                "is_admin")]
    /\ UNCHANGED <<users_df, mapping, in_flight>>

\* The Start Rating / Continue Rating button.
StartRating(s) ==
    /\ session[s]["logged_in"]
    /\ session[s]["page"] = "progress"
    /\ progress_drawn(s)
    /\ LET username == session[s]["username"]
           report_file == get_report_file_for_user(username, mapping)
           all_reports == load_all_reports(report_file)
           rated_reports == get_rated_reports(logs, username)
           to_rate == reports_to_rate(all_reports, rated_reports)
       IN IF to_rate # << >>
          THEN session' = [session EXCEPT ![s] =
                    Put(Put(@, "page", "rating"),
                        "selected_report_id", to_rate[1].rating_id)]
          ELSE session' = session
    /\ UNCHANGED <<users_df, mapping, logs, in_flight>>

(***************************************************************************)
(* draw_rating_page.                                                       *)
(***************************************************************************)
\* The report the rating page finds for the session (None: not found).
rating_page_report(s) ==
    get_report_by_id(session[s]["selected_report_id"],
                     get_report_file_for_user(session[s]["username"], mapping))

\* Lines 179-183: the report is not found, whatever was clicked.
ReportNotFound(s) ==
    /\ session[s]["logged_in"]
    /\ session[s]["page"] = "rating"
    /\ rating_page_report(s) = None
    /\ session' = [session EXCEPT ![s] = Put(@, "page", "progress")]
    /\ UNCHANGED <<users_df, mapping, logs, in_flight>>

\* The Back to Progress button.
BackToProgress(s, ok) ==
    /\ session[s]["logged_in"]
    /\ session[s]["page"] = "rating"
    /\ rating_page_report(s) # None
    /\ LogRoom(session[s]["username"], ok)
    /\ logs' = log_action(logs, session[s]["username"], "Back to Progress",
                          session[s]["selected_report_id"], "", "", ok)
    /\ session' = [session EXCEPT ![s] =
            Del(Put(@, "page", "progress"), "selected_report_id")]
    /\ UNCHANGED <<users_df, mapping, in_flight>>

\* The Submit Rating button.
SubmitRating(s, rating, comments, ok) ==
    /\ session[s]["logged_in"]
    /\ session[s]["page"] = "rating"
    /\ rating_page_report(s) # None
    /\ LogRoom(session[s]["username"], ok)
    /\ LET selected_report_id == session[s]["selected_report_id"]
           username == session[s]["username"]
           report_file == get_report_file_for_user(username, mapping)
           logged == log_action(logs, username, "Submit Rating",
                                selected_report_id, rating, comments, ok)
           all_reports == load_all_reports(report_file)
           rated_reports == get_rated_reports(logged, username) \cup {selected_report_id}
           to_rate == reports_to_rate(all_reports, rated_reports)
       IN /\ logs' = logged
          /\ IF to_rate # << >>
             THEN session' = [session EXCEPT ![s] =
                       Put(@, "selected_report_id", to_rate[1].rating_id)]
             ELSE session' = [session EXCEPT ![s] =
                       Del(Put(@, "page", "progress"), "selected_report_id")]
    /\ UNCHANGED <<users_df, mapping, in_flight>>

(***************************************************************************)
(* draw_admin_page and the router's last branch.  No script run gets to    *)
(* either: no line of the script sets the page to "admin", so they are not *)
(* steps of Next.                                                          *)
(***************************************************************************)
\* Line 262: the router draws the admin page.
admin_page_drawn(s) ==
    /\ session[s]["logged_in"]
    /\ session[s]["page"] = "admin"
    /\ Has(session[s], "is_admin")
    /\ session[s]["is_admin"]

\* The admin page's Back to Progress button.
AdminBackToProgress(s) ==
    /\ admin_page_drawn(s)
    /\ session' = [session EXCEPT ![s] = Put(@, "page", "progress")]
    /\ UNCHANGED <<users_df, mapping, logs, in_flight>>

\* Lines 264-266: any other page, or the admin page without the flag.
RouterFallback(s) ==
    /\ session[s]["logged_in"]
    /\ session[s]["page"] \notin {"progress", "rating"}
    /\ ~admin_page_drawn(s)
    /\ session' = [session EXCEPT ![s] = Put(@, "page", "progress")]
    /\ UNCHANGED <<users_df, mapping, logs, in_flight>>

(***************************************************************************)
(* The environment: the mapping file is edited.                            *)
(***************************************************************************)
ChangeMapping(m) ==
    /\ m # mapping
    /\ mapping' = m
    /\ UNCHANGED <<users_df, logs, session, in_flight>>

Next ==
    \/ \E s \in Sessions, username \in TypedUsernames, password \in TypedPasswords,
          ok \in BOOLEAN : Login(s, username, password, ok)
    \/ \E s \in Sessions, ok \in BOOLEAN : Logout(s, ok)
    \/ \E s \in Sessions : StartRating(s)
    \/ \E s \in Sessions : ReportNotFound(s)
    \/ \E s \in Sessions, ok \in BOOLEAN : BackToProgress(s, ok)
    \/ \E s \in Sessions, rating \in ChosenRatings, comments \in TypedComments,
          ok \in BOOLEAN : SubmitRating(s, rating, comments, ok)
    \/ \E m \in MappingFiles : ChangeMapping(m)

Spec == Init /\ [][Next]_vars

(***************************************************************************)
(* Two browser sessions used by one user, alice, on a fresh logs           *)
(* directory and without a mapping file.                                   *)
(***************************************************************************)
TwoSessions == {"s1", "s2"}

InitTwo ==
    /\ users_df = initialize_admin_user(RosterNoAdminColumn)
    /\ mapping = NoMappingFile
    /\ logs = [u \in LogNames |-> NoFile]
    /\ session = [s \in TwoSessions |-> NewSession]
    /\ in_flight = [s \in TwoSessions |-> NoCall]

NextTwo ==
    \/ \E s \in TwoSessions, ok \in BOOLEAN : Login(s, "alice", "pa", ok)
    \/ \E s \in TwoSessions, ok \in BOOLEAN : Logout(s, ok)
    \/ \E s \in TwoSessions : StartRating(s)
    \/ \E s \in TwoSessions, ok \in BOOLEAN : BackToProgress(s, ok)
    \/ \E s \in TwoSessions, rating \in ChosenRatings, comments \in TypedComments,
          ok \in BOOLEAN : SubmitRating(s, rating, comments, ok)

SpecTwo == InitTwo /\ [][NextTwo]_vars

(***************************************************************************)
(* The walk-through of the spec's scenario: a fresh logs directory, a      *)
(* mapping that stays as it is, one user who logs in, presses Start        *)
(* and submits.                                                            *)
(***************************************************************************)
InitScenario ==
    /\ users_df = initialize_admin_user(RosterNoAdminColumn)
    /\ mapping \in MappingFiles
    /\ logs = [u \in LogNames |-> NoFile]
    /\ session = [s \in Sessions |-> NewSession]
    /\ in_flight = [s \in Sessions |-> NoCall]

NextScenario ==
    \/ \E s \in Sessions, username \in {"alice", "bob"}, ok \in BOOLEAN :
          Login(s, username, IF username = "alice" THEN "pa" ELSE "pb", ok)
    \/ \E s \in Sessions : StartRating(s)
    \/ \E s \in Sessions, rating \in ChosenRatings, comments \in TypedComments,
          ok \in BOOLEAN : SubmitRating(s, rating, comments, ok)

SpecScenario == InitScenario /\ [][NextScenario]_vars

(***************************************************************************)
(* What the pages compute for a user, and the steps, for the properties.   *)
(***************************************************************************)
\* Lines 152-154: the user's pool and rated set, from the files as they are.
all_reports_of(username) ==
    load_all_reports(get_report_file_for_user(username, mapping))
rated_reports_of(username) == get_rated_reports(logs, username)
rating_ids(reports) == {reports[i].rating_id : i \in DOMAIN reports}

\* The users of the roster.
Usernames == {users_df.rows[i]["username"] : i \in DOMAIN users_df.rows}

\* The session is on the rating page of a report.
InRating(s) == session[s]["logged_in"] /\ session[s]["page"] = "rating"
InProgress(s) == session[s]["logged_in"] /\ session[s]["page"] = "progress"

AnySession == DOMAIN session

SubmitStep(s) ==
    \E rating \in ChosenRatings, comments \in TypedComments, ok \in BOOLEAN :
        SubmitRating(s, rating, comments, ok)
LoginStep(s) ==
    \E username \in TypedUsernames, password \in TypedPasswords, ok \in BOOLEAN :
        Login(s, username, password, ok)
LogoutStep(s) == \E ok \in BOOLEAN : Logout(s, ok)
BackStep(s) == \E ok \in BOOLEAN : BackToProgress(s, ok)

(***************************************************************************)
(* C1.  After user U submits a rating for report R (the Submit Rating      *)
(* step), R is in get_rated_reports(U); a report rated in a log this       *)
(* program wrote stays rated; and no later step selects a rated report as  *)
(* the next one to rate.                                                   *)
(***************************************************************************)
C1_SubmittedStaysRated ==
    [][\A s \in AnySession :
        /\ SubmitStep(s) =>
              session[s]["selected_report_id"]
                  \in get_rated_reports(logs', session[s]["username"])
        /\ \A u \in LogNames :
              (logs[u] # NoFile /\ logs[u].columns = columns) =>
                  get_rated_reports(logs, u) \subseteq get_rated_reports(logs', u)
        /\ (StartRating(s) \/ SubmitStep(s)) /\ session'[s]["page"] = "rating" =>
              session'[s]["selected_report_id"]
                  \notin get_rated_reports(logs', session[s]["username"])
      ]_vars

(***************************************************************************)
(* C2.  For every user the rated count of the progress page (the size of   *)
(* the rated set read from the log) is at most the total (the number of    *)
(* reports of the user's pool), so the progress fraction is within [0, 1]. *)
(***************************************************************************)
C2_RatedAtMostTotal ==
    \A u \in Usernames :
        Cardinality(rated_reports_of(u)) <= Len(all_reports_of(u))

\* The first report of a pool, in pool order, whose rating_id is not in a
\* set of rated ids: its position, 0 when every report is rated.
FirstUnrated(reports, rated) ==
    IF \A i \in DOMAIN reports : reports[i].rating_id \in rated THEN 0
    ELSE CHOOSE i \in DOMAIN reports :
            /\ reports[i].rating_id \notin rated
            /\ \A j \in 1..(i - 1) : reports[j].rating_id \in rated

\* The session is next on the rating page of the report at position i of
\* the pool, or (i = 0: no report) on the progress page.
NextReportIs(s, reports, i) ==
    IF i = 0
    THEN session'[s]["page"] = "progress"
    ELSE /\ session'[s]["page"] = "rating"
         /\ session'[s]["selected_report_id"] = reports[i].rating_id

(***************************************************************************)
(* C3.  The report chosen as next to rate, on Start/Continue and after a   *)
(* submit, is the first report in pool order whose rating_id is not in the *)
(* user's rated set (the set read from the user's log), and there is none  *)
(* exactly when every report of the pool is rated.                         *)
(***************************************************************************)
C3_NextIsFirstUnrated ==
    [][\A s \in AnySession :
        (StartRating(s) \/ SubmitStep(s)) =>
            LET username == session[s]["username"]
                all_reports == all_reports_of(username)
            IN NextReportIs(s, all_reports,
                   FirstUnrated(all_reports, get_rated_reports(logs', username)))
      ]_vars

\* The rows of a log file, none when the file is not there.
rows_of(file) == IF file = NoFile THEN << >> ELSE file.rows
\* The file has the columns log_action writes.
HasLogColumns(file) == file # NoFile /\ file.columns = columns

LoggedOut(s) == session[s]["logged_in"] /\ ~session'[s]["logged_in"]
LoggedIn(s) == ~session[s]["logged_in"] /\ session'[s]["logged_in"]

\* The last entry of the user's log is of one of the given actions.
LastActionIn(username, actions) ==
    /\ HasLogColumns(logs[username])
    /\ logs[username].rows[Len(logs[username].rows)]["Action"] \in actions

(***************************************************************************)
(* C5 as claimed.  For every user U, whatever U's log holds, a logout and  *)
(* a successful login leave U's rated set unchanged, and with it the       *)
(* first unrated report of U's pool: progress is not reset.                *)
(***************************************************************************)
C5_LogoutLoginKeepsRated ==
    [][\A s \in AnySession :
        LoggedOut(s) \/ LoggedIn(s)
        => \A u \in LogNames :
           /\ get_rated_reports(logs', u) = get_rated_reports(logs, u)
           /\ FirstUnrated(all_reports_of(u), get_rated_reports(logs', u))
                = FirstUnrated(all_reports_of(u), get_rated_reports(logs, u))
      ]_vars

(***************************************************************************)
(* C5 as amended.  For every user U whose log file is absent or has the    *)
(* columns log_action writes, a logout and a successful login leave U's    *)
(* rated set unchanged, and with it the first unrated report of U's pool:  *)
(* the next Start/Continue resumes where U stopped.                        *)
(***************************************************************************)
C5_LogoutLoginKeepsRatedOfCurrentLog ==
    [][\A s \in AnySession :
        LoggedOut(s) \/ LoggedIn(s)
        => \A u \in LogNames :
             logs[u] = NoFile \/ HasLogColumns(logs[u])
             => /\ get_rated_reports(logs', u) = get_rated_reports(logs, u)
                /\ FirstUnrated(all_reports_of(u), get_rated_reports(logs', u))
                     = FirstUnrated(all_reports_of(u), get_rated_reports(logs, u))
      ]_vars

\* A user with rated reports has logged out or in, and the entry is in the log.
C5_Witness ==
    \E u \in LogNames :
        /\ get_rated_reports(logs, u) # {}
        /\ LastActionIn(u, {"Logout", "Login Success"})

(***************************************************************************)
(* C6.  A Submit Rating entry appended for a report that is already in     *)
(* user U's rated set (a second session of U submits it again) makes U's   *)
(* log one entry longer and leaves U's rated set, and so its size,         *)
(* unchanged.                                                              *)
(***************************************************************************)
C6_ResubmitKeepsRatedSet ==
    [][\A s \in AnySession :
        \A rating \in ChosenRatings, comments \in TypedComments :
            LET username == session[s]["username"]
            IN  /\ SubmitRating(s, rating, comments, TRUE)
                /\ session[s]["selected_report_id"] \in get_rated_reports(logs, username)
                => /\ Len(logs'[username].rows) = Len(logs[username].rows) + 1
                   /\ get_rated_reports(logs', username) = get_rated_reports(logs, username)
                   /\ Cardinality(get_rated_reports(logs', username))
                        = Cardinality(get_rated_reports(logs, username))
      ]_vars

\* A user's log holds two Submit Rating entries for one report.
C6_Witness ==
    \E u \in LogNames :
        /\ HasLogColumns(logs[u])
        /\ \E i, j \in DOMAIN logs[u].rows :
              /\ i < j
              /\ logs[u].rows[i]["Action"] = "Submit Rating"
              /\ logs[u].rows[j]["Action"] = "Submit Rating"
              /\ logs[u].rows[i]["Report ID"] = logs[u].rows[j]["Report ID"]

(***************************************************************************)
(* C8.  A logged-in user whose is_admin flag is true can move from the     *)
(* progress page to the admin page: in every state where such a session is *)
(* on the progress page, some operation of the application puts the        *)
(* session on the admin page.                                              *)
(***************************************************************************)
C8_AdminCanEnterAdminPage ==
    \A s \in AnySession :
        /\ InProgress(s)
        /\ Has(session[s], "is_admin") /\ session[s]["is_admin"]
        => ENABLED (Next /\ session'[s]["page"] = "admin")

\* The position of the report with this rating_id in the pool.
PositionOf(reports, rating_id) ==
    CHOOSE k \in DOMAIN reports : reports[k].rating_id = rating_id

(***************************************************************************)
(* C9.  From an empty log and a pool of n reports: Start goes to the first *)
(* report of the pool (and stays on the progress page when n = 0); the     *)
(* submit of the k-th report leaves the user with exactly the first k      *)
(* reports rated (rated = k) and goes on to report k+1, and the n-th       *)
(* submit returns to the progress page with no selected report and         *)
(* rated = total = n.                                                      *)
(***************************************************************************)
C9_RatesPoolInOrder ==
    [][\A s \in AnySession :
        LET username == session[s]["username"]
            all_reports == all_reports_of(username)
            n == Len(all_reports)
        IN  /\ StartRating(s) /\ rated_reports_of(username) = {}
               => IF n = 0 THEN session'[s]["page"] = "progress"
                  ELSE /\ session'[s]["page"] = "rating"
                       /\ session'[s]["selected_report_id"] = all_reports[1].rating_id
            /\ SubmitStep(s)
               => LET k == PositionOf(all_reports, session[s]["selected_report_id"])
                      rated_reports == get_rated_reports(logs', username)
                  IN /\ rated_reports = {all_reports[i].rating_id : i \in 1..k}
                     /\ Cardinality(rated_reports) = k
                     /\ IF k = n
                        THEN /\ session'[s]["page"] = "progress"
                             /\ ~Has(session'[s], "selected_report_id")
                             /\ Cardinality(rated_reports) = Len(all_reports)
                        ELSE /\ session'[s]["page"] = "rating"
                             /\ session'[s]["selected_report_id"]
                                  = all_reports[k + 1].rating_id
      ]_vars

\* The first mapped pool, in mapping order, that lists the user; 0 when the
\* mapping file is absent or lists the user under no pool.
FirstListing(username) ==
    IF mapping = NoMappingFile THEN 0
    ELSE LET listed == {i \in DOMAIN mapping : username \in mapping[i].users}
         IN IF listed = {} THEN 0
            ELSE CHOOSE i \in listed : \A j \in listed : i <= j

(***************************************************************************)
(* C10.  get_report_file_for_user returns, for every username that can be  *)
(* typed, the first pool in mapping order whose user list contains the     *)
(* username, and the default pool rating_reports.jsonl when the mapping    *)
(* file is absent or lists the username under no pool; resolving again     *)
(* with the mapping unchanged gives the same pool.                         *)
(***************************************************************************)
C10_ResolvesFirstListedPool ==
    \A username \in TypedUsernames :
        LET report_file == get_report_file_for_user(username, mapping)
        IN /\ report_file = IF FirstListing(username) = 0 THEN "rating_reports.jsonl"
                            ELSE mapping[FirstListing(username)].report_file
           /\ report_file # NonePath
           /\ get_report_file_for_user(username, mapping) = report_file

\* A user listed under two pools is rating the first report of the first of
\* them, and another user is listed under no pool.
C10_Witness ==
    /\ mapping # NoMappingFile
    /\ \E s \in AnySession :
          /\ InRating(s)
          /\ Cardinality({i \in DOMAIN mapping :
                            session[s]["username"] \in mapping[i].users}) = 2
          /\ session[s]["selected_report_id"]
               = ReportFiles[mapping[1].report_file][1].rating_id
    /\ \E username \in TypedUsernames : FirstListing(username) = 0

(***************************************************************************)
(* C11.  When the write inside log_action fails during a Submit Rating,    *)
(* the session is left as it was: still on the rating page with the same   *)
(* selected report, and the report is not in the user's rated set.         *)
(***************************************************************************)
C11_FailedSubmitKeepsSession ==
    [][\A s \in AnySession :
        \A rating \in ChosenRatings, comments \in TypedComments :
            SubmitRating(s, rating, comments, FALSE)
            => /\ session'[s]["page"] = "rating"
               /\ Has(session'[s], "selected_report_id")
               /\ session'[s]["selected_report_id"] = session[s]["selected_report_id"]
               /\ session[s]["selected_report_id"]
                    \notin get_rated_reports(logs', session[s]["username"])
      ]_vars

\* The username and password are those of a roster row (line 126-127).
ValidLogin(username, password) ==
    \E i \in DOMAIN users_df.rows :
        /\ users_df.rows[i]["username"] = username
        /\ users_df.rows[i]["password"] = password

\* The step has written an entry of this action as the last one of the
\* user's log.
EntryWritten(username, action) ==
    /\ logs'[username] # logs[username]
    /\ HasLogColumns(logs'[username])
    /\ LET last == logs'[username].rows[Len(logs'[username].rows)]
       IN last["Action"] = action /\ last["Username"] = username
    /\ Len(logs'[username].rows)
         = IF HasLogColumns(logs[username]) THEN Len(logs[username].rows) + 1 ELSE 1
    /\ \A v \in LogNames \ {username} : logs'[v] = logs[v]

C13_LoggedOutSessionIsCleared ==
    \A s \in AnySession :
        ~session[s]["logged_in"]
        => /\ ~Has(session[s], "username")
           /\ ~Has(session[s], "is_admin")
           /\ ~Has(session[s], "selected_report_id")

(***************************************************************************)
(* C14.  Pressing Back on the rating page of report r writes one Back to   *)
(* Progress entry carrying r, puts the session on the progress page with   *)
(* no selected report id and leaves the user's rated set unchanged; and an *)
(* entry of any action other than Submit Rating adds nothing to the rated  *)
(* set.                                                                    *)
(***************************************************************************)
C14_BackLogsAndKeepsRated ==
    [][\A s \in AnySession :
        /\ BackStep(s)
           => LET username == session[s]["username"]
              IN /\ EntryWritten(username, "Back to Progress")
                 /\ logs'[username].rows[Len(logs'[username].rows)]["Report ID"]
                      = session[s]["selected_report_id"]
                 /\ session'[s]["page"] = "progress"
                 /\ ~Has(session'[s], "selected_report_id")
                 /\ get_rated_reports(logs', username) = get_rated_reports(logs, username)
        /\ \A u \in LogNames :
             \A action \in {"Login Success", "Login Fail", "Logout", "Back to Progress"} :
                EntryWritten(u, action)
                => get_rated_reports(logs', u) \subseteq get_rated_reports(logs, u)
      ]_vars

(***************************************************************************)
(* C15.  A submit on the rating page of report r writes exactly one Submit *)
(* Rating entry with report id r and the submitted rating and comment, and *)
(* then puts the session on the rating page of the first pool report not   *)
(* in the rated set read back from the log, a report other than r, or,     *)
(* when there is none, on the progress page with the selected report id    *)
(* removed.                                                                *)
(***************************************************************************)
C15_SubmitLogsAndAdvances ==
    [][\A s \in AnySession :
        \A rating \in ChosenRatings, comments \in TypedComments :
            (\E ok \in BOOLEAN : SubmitRating(s, rating, comments, ok))
            => LET username == session[s]["username"]
                   r == session[s]["selected_report_id"]
                   all_reports == all_reports_of(username)
                   next == FirstUnrated(all_reports, get_rated_reports(logs', username))
               IN /\ EntryWritten(username, "Submit Rating")
                  /\ LET last == logs'[username].rows[Len(logs'[username].rows)]
                     IN /\ last["Report ID"] = r
                        /\ last["Rating"] = rating
                        /\ last["Comments"] = comments
                  /\ NextReportIs(s, all_reports, next)
                  /\ IF next = 0 THEN ~Has(session'[s], "selected_report_id")
                     ELSE session'[s]["selected_report_id"] # r
      ]_vars

(***************************************************************************)
(* C16.  When the rating page finds no report for the selected report id   *)
(* in the user's current pool, no log entry is written and the session is  *)
(* put on the progress page with no selected report id, as after every     *)
(* other return to the progress page.                                      *)
(***************************************************************************)
C16_ReportNotFoundClearsSelection ==
    [][\A s \in AnySession :
        ReportNotFound(s)
        => /\ logs' = logs
           /\ session'[s]["page"] = "progress"
           /\ ~Has(session'[s], "selected_report_id")
      ]_vars

(***************************************************************************)
(* Two browser sessions whose script threads run side by side: in s1 alice *)
(* logs in and rates, in s2 somebody types alice's username with a wrong   *)
(* password.  log_action is taken in its two steps, the read of the log    *)
(* file (line 38) and the write of the whole file (line 46); it holds no   *)
(* lock between them.                                                      *)
(***************************************************************************)
\* The thread enters log_action and builds the data frame from the file.
log_action_reads(s, username, action, report_id, rating, comments) ==
    /\ in_flight[s] = NoCall
    /\ in_flight' = [in_flight EXCEPT ![s] =
            [username |-> username, action |-> action,
             log_df |-> log_df_built(logs, username, action, report_id,
                                     rating, comments)]]

\* The thread writes the data frame it has built, or fails to.
log_action_writes(s, action, ok) ==
    /\ in_flight[s] # NoCall
    /\ in_flight[s].action = action
    /\ ok => TotalRows < MaxLog \/ Len(in_flight[s].log_df.rows) = 1
    /\ logs' = IF ok
               THEN [logs EXCEPT ![in_flight[s].username] = to_excel(in_flight[s].log_df)]
               ELSE logs
    /\ in_flight' = [in_flight EXCEPT ![s] = NoCall]

\* Lines 134-137, up to the read inside log_action.
FailedLoginReads(s, username, password) ==
    /\ ~session[s]["logged_in"]
    /\ username # "" /\ ~(\E i \in DOMAIN users_df.rows :
                            /\ users_df.rows[i]["username"] = username
                            /\ users_df.rows[i]["password"] = password)
    /\ log_action_reads(s, username, "Login Fail", "", "", "")
    /\ UNCHANGED <<users_df, mapping, logs, session>>

FailedLoginWrites(s, ok) ==
    /\ log_action_writes(s, "Login Fail", ok)
    /\ UNCHANGED <<users_df, mapping, session>>

\* Lines 203-204, up to the read inside log_action.
SubmitReads(s, rating, comments) ==
    /\ session[s]["logged_in"]
    /\ session[s]["page"] = "rating"
    /\ rating_page_report(s) # None
    /\ log_action_reads(s, session[s]["username"], "Submit Rating",
                        session[s]["selected_report_id"], rating, comments)
    /\ UNCHANGED <<users_df, mapping, logs, session>>

\* The write inside log_action and lines 205-220.
SubmitWrites(s, ok) ==
    /\ log_action_writes(s, "Submit Rating", ok)
    /\ LET selected_report_id == session[s]["selected_report_id"]
           username == session[s]["username"]
           all_reports == load_all_reports(get_report_file_for_user(username, mapping))
           rated_reports == get_rated_reports(logs', username) \cup {selected_report_id}
           to_rate == reports_to_rate(all_reports, rated_reports)
       IN IF to_rate # << >>
          THEN session' = [session EXCEPT ![s] =
                    Put(@, "selected_report_id", to_rate[1].rating_id)]
          ELSE session' = [session EXCEPT ![s] =
                    Del(Put(@, "page", "progress"), "selected_report_id")]
    /\ UNCHANGED <<users_df, mapping>>

InitRace ==
    /\ users_df = initialize_admin_user(RosterNoAdminColumn)
    /\ mapping = NoMappingFile
    /\ logs = [u \in LogNames |-> NoFile]
    /\ session = [s \in TwoSessions |-> NewSession]
    /\ in_flight = [s \in TwoSessions |-> NoCall]

NextRace ==
    \/ \E ok \in BOOLEAN : in_flight["s1"] = NoCall /\ Login("s1", "alice", "pa", ok)
    \/ in_flight["s1"] = NoCall /\ StartRating("s1")
    \/ \E rating \in ChosenRatings, comments \in TypedComments :
          SubmitReads("s1", rating, comments)
    \/ \E ok \in BOOLEAN : SubmitWrites("s1", ok)
    \/ FailedLoginReads("s2", "alice", "pb")
    \/ \E ok \in BOOLEAN : FailedLoginWrites("s2", ok)

SpecRace == InitRace /\ [][NextRace]_vars

(***************************************************************************)
(* C17.  With at most one logged-in session per username, no entry of any  *)
(* user's log is lost under any interleaving of sessions: every step       *)
(* leaves the entries a log of this program holds in place, in order and   *)
(* reading back as before, failed login attempts from other sessions that  *)
(* name the user included.                                                 *)
(***************************************************************************)
C17_NoEntryLost ==
    [][\A u \in LogNames :
        HasLogColumns(logs[u])
        => /\ HasLogColumns(logs'[u])
           /\ Len(logs'[u].rows) >= Len(logs[u].rows)
           /\ \A i \in DOMAIN logs[u].rows :
                 read_excel(logs'[u]).rows[i] = read_excel(logs[u]).rows[i]
      ]_vars

(***************************************************************************)
(* C18.  After a log_action call for a user whose log file has columns     *)
(* other than the expected ones, or has no log file, the log consists of   *)
(* exactly the one new entry: the previous contents are discarded, and the *)
(* rated set read from it holds at most the new entry's report id.         *)
(***************************************************************************)
C18_StartsFresh ==
    [][\A s \in AnySession :
        LoggedIn(s) \/ LoggedOut(s) \/ BackStep(s) \/ SubmitStep(s)
        => LET username == IF Has(session[s], "username") THEN session[s]["username"]
                           ELSE session'[s]["username"]
           IN ~HasLogColumns(logs[username])
              => /\ HasLogColumns(logs'[username])
                 /\ Len(logs'[username].rows) = 1
                 /\ logs'[username].rows[1]["Username"] = username
                 /\ get_rated_reports(logs', username)
                      \subseteq {logs'[username].rows[1]["Report ID"]}
      ]_vars

(***************************************************************************)
(* One session, and a mapping and pools that stay as they are: the steps   *)
(* of Spec without a change of the mapping file (the rating page then      *)
(* always finds its report).                                               *)
(***************************************************************************)
NextFixed ==
    \/ \E s \in Sessions, username \in TypedUsernames, password \in TypedPasswords,
          ok \in BOOLEAN : Login(s, username, password, ok)
    \/ \E s \in Sessions, ok \in BOOLEAN : Logout(s, ok)
    \/ \E s \in Sessions : StartRating(s)
    \/ \E s \in Sessions, ok \in BOOLEAN : BackToProgress(s, ok)
    \/ \E s \in Sessions, rating \in ChosenRatings, comments \in TypedComments,
          ok \in BOOLEAN : SubmitRating(s, rating, comments, ok)

SpecFixed == Init /\ [][NextFixed]_vars

\* The Report IDs of the Submit Rating entries of a log with the expected
\* columns, in order.
SubmittedIds(file) ==
    LET submits == SelectSeq(file.rows, LAMBDA row : row["Action"] = "Submit Rating")
    IN [i \in DOMAIN submits |-> submits[i]["Report ID"]]

(***************************************************************************)
(* C19.  With one session per user and a fixed pool and mapping: whenever  *)
(* the session is on the rating page of r, r is the rating_id of a report  *)
(* of the logged-in user's pool and is not in that user's rated set; and   *)
(* every Submit Rating entry of a log this program wrote names a report of *)
(* the user's pool, no report twice.                                       *)
(***************************************************************************)
C19_RatingPageReportIsUnratedPoolReport ==
    /\ \A s \in AnySession :
          InRating(s)
          => LET username == session[s]["username"]
                 r == session[s]["selected_report_id"]
             IN /\ r \in rating_ids(all_reports_of(username))
                /\ r \notin rated_reports_of(username)
    /\ \A u \in LogNames :
          HasLogColumns(logs[u])
          => LET ids == SubmittedIds(logs[u])
             IN /\ \A i \in DOMAIN ids : ids[i] \in rating_ids(all_reports_of(u))
                /\ \A i, j \in DOMAIN ids : ids[i] = ids[j] => i = j

\* A user who has rated the first report of the pool is on the rating page
\* of the second.
C19_Witness ==
    \E s \in AnySession :
        /\ InRating(s)
        /\ HasLogColumns(logs[session[s]["username"]])
        /\ LET all_reports == all_reports_of(session[s]["username"])
           IN /\ Len(all_reports) >= 2
              /\ rated_reports_of(session[s]["username"]) = {all_reports[1].rating_id}
              /\ session[s]["selected_report_id"] = all_reports[2].rating_id

(***************************************************************************)
(* The roster file as the script can find it at its first run, without or  *)
(* with the is_admin column, and the sessions of Spec on the roster that   *)
(* initialize_admin_user leaves.                                           *)
(***************************************************************************)
RosterFiles == {RosterNoAdminColumn, RosterWithAdminColumn}

InitRoster ==
    /\ users_df \in {initialize_admin_user(file) : file \in RosterFiles}
    /\ mapping = NoMappingFile
    /\ logs = [u \in LogNames |-> NoFile]
    /\ session = [s \in Sessions |-> NewSession]
    /\ in_flight = [s \in Sessions |-> NoCall]

SpecRoster == InitRoster /\ [][NextFixed]_vars

\* The roster row of the user.
RosterRow(roster, username) ==
    roster.rows[CHOOSE i \in DOMAIN roster.rows : roster.rows[i]["username"] = username]

(***************************************************************************)
(* C20.  initialize_admin_user is a one-time migration: on a roster        *)
(* without the is_admin field it makes the first row the one admin and     *)
(* every other row a non-admin, changing nothing else; a roster with the   *)
(* field is left unchanged, so the run at every page load changes the      *)
(* roster no more, and a logged-in session carries the flag of its roster  *)
(* row.                                                                    *)
(***************************************************************************)
C20_AdminMigrationRunsOnce ==
    /\ \A file \in RosterFiles :
          LET after == initialize_admin_user(file)
          IN IF "is_admin" \in Range(file.columns)
             THEN after = file
             ELSE /\ after.columns = Append(file.columns, "is_admin")
                  /\ DOMAIN after.rows = DOMAIN file.rows
                  /\ \A i \in DOMAIN file.rows :
                        /\ after.rows[i]["is_admin"] = (i = 1)
                        /\ \A c \in Range(file.columns) :
                              after.rows[i][c] = file.rows[i][c]
    /\ initialize_admin_user(users_df) = users_df
    /\ \A s \in AnySession :
          session[s]["logged_in"]
          => session[s]["is_admin"]
               = RosterRow(users_df, session[s]["username"])["is_admin"]

\* On a roster that came with the is_admin field, a user who is not in the
\* first row is logged in as the admin.
C20_Witness ==
    /\ users_df = RosterWithAdminColumn
    /\ \E s \in AnySession :
          /\ session[s]["logged_in"]
          /\ session[s]["username"] # users_df.rows[1]["username"]
          /\ session[s]["is_admin"]

====
